---- MODULE Spec2Model ----
(***************************************************************************)
(* Model of mapper.py: the airport table (AirportDatabase), the airport    *)
(* code canonicalizer, the route parser, the logbook loader, the landing   *)
(* set and the landing state codes.                                        *)
(*                                                                         *)
(* A Python str is a sequence of one-character strings.  A value that is   *)
(* either None or something else is a record [some, val]; None is the      *)
(* record with some = FALSE.  A spreadsheet cell is a record [type, val],  *)
(* type "str" for text and "float" for a blank (NaN) or numeric cell.      *)
(* The planar projection of the coordinates (to_crs) is numeric and has no *)
(* part in what is checked here; only the failure of the coordinate parse  *)
(* is modelled.                                                            *)
(***************************************************************************)
EXTENDS Integers, Sequences, FiniteSets, TLC

VARIABLES pc, catalog, df, rows, logbook, landings, states,
          code, canon, route, codes

vars == <<pc, catalog, df, rows, logbook, landings, states,
          code, canon, route, codes>>

(* ------------------------------ bounds --------------------------------- *)
MaxAirports == 2
MaxShortLegs == 2
MaxLegs == 10
MaxRows == 2

(* --------------------------- Python values ----------------------------- *)
None == [some |-> FALSE, val |-> <<>>]
Some(v) == [some |-> TRUE, val |-> v]

Str(s) == [type |-> "str", val |-> s]
NaN == [type |-> "float", val |-> <<"n", "a", "n">>]

Range(s) == {s[i] : i \in DOMAIN s}

(* characters str.strip() removes when called without an argument *)
Whitespace == {" ", "\t", "\n", "\r", "\f"}

(* code point order of the characters the identifiers are made of *)
Ord(ch) ==
    CASE ch = "0" -> 48 [] ch = "1" -> 49 [] ch = "7" -> 55
      [] ch = "C" -> 67 [] ch = "K" -> 75 [] ch = "M" -> 77
      [] ch = "N" -> 78 [] ch = "O" -> 79 [] ch = "R" -> 82
      [] ch = "S" -> 83 [] ch = "T" -> 84 [] ch = "W" -> 87
      [] ch = "X" -> 88 [] ch = "Z" -> 90 [] OTHER -> 0

(* a < b for Python strings *)
RECURSIVE StrLess(_, _)
StrLess(a, b) ==
    IF b = <<>> THEN FALSE
    ELSE IF a = <<>> THEN TRUE
    ELSE IF Ord(Head(a)) # Ord(Head(b)) THEN Ord(Head(a)) < Ord(Head(b))
    ELSE StrLess(Tail(a), Tail(b))

(* sorted(S) for a set of strings *)
RECURSIVE Sorted(_)
Sorted(S) ==
    IF S = {} THEN <<>>
    ELSE LET m == CHOOSE x \in S : \A y \in S \ {x} : StrLess(x, y)
         IN <<m>> \o Sorted(S \ {m})

(* s.startswith(p) *)
StartsWith(s, p) == Len(s) >= Len(p) /\ SubSeq(s, 1, Len(p)) = p

(* s.split(sep) *)
RECURSIVE Split(_, _)
Split(s, sep) ==
    LET hits == {i \in 1..(Len(s) - Len(sep) + 1) :
                    SubSeq(s, i, i + Len(sep) - 1) = sep}
    IN IF hits = {} THEN <<s>>
       ELSE LET i == CHOOSE h \in hits : \A g \in hits : h <= g
            IN <<SubSeq(s, 1, i - 1)>> \o
               Split(SubSeq(s, i + Len(sep), Len(s)), sep)

(* s.strip() *)
Strip(s) ==
    LET keep == {i \in DOMAIN s : s[i] \notin Whitespace}
    IN IF keep = {} THEN <<>>
       ELSE LET lo == CHOOSE i \in keep : \A j \in keep : i <= j
                hi == CHOOSE i \in keep : \A j \in keep : j <= i
            IN SubSeq(s, lo, hi)

(* float(s) succeeds, for s made of digits, sign, point and whitespace *)
Digits == {"0", "1", "2", "3", "4", "5", "6", "7", "8", "9"}
IsFloat(s) ==
    LET t == Strip(s)
        u == IF t # <<>> /\ Head(t) \in {"-", "+"} THEN Tail(t) ELSE t
        dots == {i \in DOMAIN u : u[i] = "."}
    IN /\ \A i \in DOMAIN u : u[i] \in Digits \cup {"."}
       /\ Cardinality(dots) <= 1
       /\ \E i \in DOMAIN u : u[i] \in Digits

(* ---------------------------- input pools ------------------------------ *)
SMO == <<"S", "M", "O">>
RNT == <<"R", "N", "T">>
ZZZ == <<"Z", "Z", "Z">>
KSMO == <<"K", "S", "M", "O">>
CSMO == <<"C", "S", "M", "O">>
KRNT == <<"K", "R", "N", "T">>
W10 == <<"W", "1", "0">>
W11 == <<"W", "1", "1">>
GoodCoord == <<"-", "1", ".", "5", ",", " ", "4">>
BadCoord == <<"x", ",", " ", "4">>

Airport(id, cont, loc, reg, coord) ==
    [ident |-> id, continent |-> cont, local_code |-> loc,
     iso_region |-> reg, coordinates |-> coord]

AirportPool ==
    { Airport(KSMO, "NA", Some(SMO), <<"U", "S", "-", "C", "A">>, GoodCoord),
      Airport(CSMO, "NA", None, <<"C", "A", "-", "B", "C">>, GoodCoord),
      Airport(SMO, "NA", Some(<<"S", "M">>), <<"U", "S", "A">>, GoodCoord),
      Airport(KRNT, "NA", Some(RNT), <<"U", "S", "-", "W", "A">>, GoodCoord),
      Airport(W10, "NA", Some(ZZZ), <<"U", "S", "-", "W", "A">>, GoodCoord),
      Airport(W11, "NA", Some(ZZZ), <<"U", "S">>, GoodCoord),
      Airport(KSMO, "EU", None, <<"G", "B", "-", "E">>, GoodCoord),
      Airport(KSMO, "NA", None, <<"U", "S", "-", "O", "R">>, GoodCoord),
      Airport(KRNT, "NA", None, <<"U", "S", "-", "W", "A">>, BadCoord) }

SeqsUpTo(S, n) == UNION {[1..k -> S] : k \in 0..n}

Catalogs == SeqsUpTo(AirportPool, MaxAirports)

RECURSIVE Join(_)
Join(segs) ==
    IF Len(segs) = 0 THEN <<>>
    ELSE IF Len(segs) = 1 THEN segs[1]
    ELSE segs[1] \o <<"-">> \o Join(Tail(segs))

SegmentPool == {SMO, RNT, ZZZ, KSMO, <<"S", "M">>,
                <<"S", "M", "O", "X", "X">>, <<>>}
LeftPads == {<<>>, <<" ", " ">>}
RightPads == {<<>>, <<"\n">>}

Texts ==
    { l \o Join(s) \o r :
        l \in LeftPads, r \in RightPads,
        s \in (SeqsUpTo(SegmentPool, MaxShortLegs) \ {<<>>})
              \cup {[i \in 1..n |-> SMO] : n \in 3..MaxLegs} }

Cells == {Str(t) : t \in Texts} \cup {NaN}

CodePool == {SMO, RNT, ZZZ, KSMO, W10, <<>>}

RowPool ==
    { Str(Join(<<SMO, RNT>>)), Str(Join(<<SMO, ZZZ>>)),
      Str(Join(<<SMO, SMO>>)), Str(<<" ">> \o Join(<<RNT, ZZZ>>) \o <<"\n">>),
      Str(<<"A", "n", "n", "u", "a", "l">>), NaN }

Logbooks == SeqsUpTo(RowPool, MaxRows)

(* --------------------------- AirportDatabase --------------------------- *)
(* df[df['continent'] == 'NA'] *)
NorthAmerica(cat) == SelectSeq(cat, LAMBDA a : a.continent = "NA")

(* df['coordinates'].str.split(', ', expand=True): one row of parts per record *)
LonLat(table) == [i \in DOMAIN table |-> Split(table[i].coordinates, <<",", " ">>)]

(* .astype(float) raises on a part that is no number; lonlat[0] and      *)
(* lonlat[1] raise when no record has that many parts                     *)
CoordinatesFail(table) ==
    LET lonlat == LonLat(table)
    IN \/ \E i \in DOMAIN lonlat : \E j \in DOMAIN lonlat[i] : ~IsFloat(lonlat[i][j])
       \/ \A i \in DOMAIN lonlat : Len(lonlat[i]) < 2

(* df.set_index('ident'): the records keep their order and every record  *)
(* is kept, also when two of them carry the same ident                    *)
SetIndex(table) == table

(* self.df.index *)
Index(table) == {table[i].ident : i \in DOMAIN table}

(* mutant: the Canadian prefix is tried before the US prefix *)
canonicalize_airport_code_c_first(table, c) ==
    IF <<"C">> \o c \in Index(table) THEN Some(<<"C">> \o c)
    ELSE IF <<"K">> \o c \in Index(table) THEN Some(<<"K">> \o c)
    ELSE IF c \in Index(table) THEN Some(c)
    ELSE LET local == SelectSeq(table, LAMBDA a : a.local_code = Some(c))
         IN IF Len(local) = 1 THEN Some(local[1].ident) ELSE None

(* mutant: the first of several records with the local code is taken *)
canonicalize_airport_code_any_local(table, c) ==
    IF <<"K">> \o c \in Index(table) THEN Some(<<"K">> \o c)
    ELSE IF <<"C">> \o c \in Index(table) THEN Some(<<"C">> \o c)
    ELSE IF c \in Index(table) THEN Some(c)
    ELSE LET local == SelectSeq(table, LAMBDA a : a.local_code = Some(c))
         IN IF Len(local) >= 1 THEN Some(local[1].ident) ELSE None

(* mutant: a local code match returns the code, not the record's ident *)
canonicalize_airport_code_keep_code(table, c) ==
    IF <<"K">> \o c \in Index(table) THEN Some(<<"K">> \o c)
    ELSE IF <<"C">> \o c \in Index(table) THEN Some(<<"C">> \o c)
    ELSE IF c \in Index(table) THEN Some(c)
    ELSE LET local == SelectSeq(table, LAMBDA a : a.local_code = Some(c))
         IN IF Len(local) = 1 THEN Some(c) ELSE None

(* "K"+code in self.df.index, and so on: first match wins *)
canonicalize_airport_code(table, c) ==
    IF <<"K">> \o c \in Index(table) THEN Some(<<"K">> \o c)
    ELSE IF <<"C">> \o c \in Index(table) THEN Some(<<"C">> \o c)
    ELSE IF c \in Index(table) THEN Some(c)
    ELSE LET local == SelectSeq(table, LAMBDA a : a.local_code = Some(c))
         IN IF Len(local) = 1 THEN Some(local[1].ident) ELSE None

(* mutant: ten segments pass *)
BadCount_ten(n) == n < 2 \/ n > 10

(* len(codes) < 2 or len(codes) > 9 *)
BadCount(n) == n < 2 \/ n > 9

(* mutant: a range check that lets two characters pass *)
BadLength_range(n) == n < 2 \/ n > 4

(* len(code) != 3 and len(code) != 4 *)
BadLength(n) == n # 3 /\ n # 4

(* route.strip() *)
Cleaned(text) == Strip(text)

(* [self.canonicalize_airport_code(code) for code in codes] *)
CanonicalizeAll(table, segs) ==
    [i \in DOMAIN segs |-> canonicalize_airport_code(table, segs[i])]

(* mutant: a None among the codes does not invalidate the route *)
Invalidate_never(cs) == FALSE

(* None in codes *)
Invalidate(cs) == None \in Range(cs)

(* return codes: the list of identifiers, none of them None *)
Values(cs) == [i \in DOMAIN cs |-> cs[i].val]

split_valid_route(table, r) ==
    IF r.type # "str" THEN None
    ELSE LET segs == Split(Cleaned(r.val), <<"-">>)
         IN IF BadCount(Len(segs)) THEN None
            ELSE IF \E i \in DOMAIN segs : BadLength(Len(segs[i])) THEN None
            ELSE LET cs == CanonicalizeAll(table, segs)
                 IN IF Invalidate(cs) THEN None
                    ELSE Some(Values(cs))

(* ------------------------------- Logbook -------------------------------- *)
(* df['codes'] = df['Route'].apply(airport_db.split_valid_route) *)
ApplyRoutes(table, rs) ==
    [i \in DOMAIN rs |->
        [row |-> i, Route |-> rs[i], codes |-> split_valid_route(table, rs[i])]]

(* mutant: the rows with a blank Route are dropped, not those without codes *)
DropInvalid_blank(entries) == SelectSeq(entries, LAMBDA e : e.Route.type = "str")

(* df[~df['codes'].isna()] *)
DropInvalid(entries) == SelectSeq(entries, LAMBDA e : e.codes # None)

(* ------------------------------- Landings ------------------------------- *)
(* set([airport for route in logbook.df['codes'] for airport in route]) *)
landing_airports(entries) ==
    UNION {Range(entries[i].codes.val) : i \in DOMAIN entries}

(* airport_db.df.loc[keys]: for each key in turn, every record under it *)
RECURSIVE Loc(_, _)
Loc(table, keys) ==
    IF keys = <<>> THEN <<>>
    ELSE SelectSeq(table, LAMBDA a : a.ident = Head(keys)) \o Loc(table, Tail(keys))

(* region.startswith("US-") and region[3:] *)
UsPrefix == <<"U", "S", "-">>
(* mutant: the dash is left out of the prefix test *)
IsUsRegion_nodash(region) == StartsWith(region, <<"U", "S">>)

IsUsRegion(region) == StartsWith(region, UsPrefix)
StateOf(region) == SubSeq(region, 4, Len(region))

get_landing_state_codes(ldf) ==
    LET regions == {ldf[i].iso_region : i \in DOMAIN ldf}
    IN {StateOf(region) : region \in {x \in regions : IsUsRegion(x)}}

(* ------------------------------ the program ----------------------------- *)
Unset ==
    /\ pc = "start"
    /\ df = <<>>
    /\ logbook = <<>>
    /\ landings = <<>>
    /\ states = {}
    /\ code = <<>>
    /\ canon = None
    /\ route = NaN
    /\ codes = None

(* main(): the two input files *)
Init ==
    /\ catalog \in Catalogs
    /\ rows \in Logbooks
    /\ Unset

(* a table and one call of a method on it *)
InitFn ==
    /\ catalog \in Catalogs
    /\ rows = <<>>
    /\ Unset

(* AirportDatabase.__init__ *)
AirportDatabaseInit ==
    /\ pc = "start"
    /\ LET na == NorthAmerica(catalog)
       IN \/ /\ Len(catalog) > 0
             /\ ~CoordinatesFail(SetIndex(na))
             /\ df' = SetIndex(na)
             /\ pc' = "db"
          \/ /\ Len(catalog) = 0 \/ CoordinatesFail(SetIndex(na))
             /\ df' = df
             /\ pc' = "failed"
    /\ UNCHANGED <<catalog, rows, logbook, landings, states, code, canon, route, codes>>

(* Logbook.__init__ *)
LogbookInit ==
    /\ pc = "db"
    /\ logbook' = DropInvalid(ApplyRoutes(df, rows))
    /\ pc' = "logbook"
    /\ UNCHANGED <<catalog, df, rows, landings, states, code, canon, route, codes>>

(* Landings.__init__ *)
LandingsInit ==
    /\ pc = "logbook"
    /\ LET keys == Sorted(landing_airports(logbook))
       IN IF Range(keys) \subseteq Index(df)
          THEN landings' = Loc(df, keys) /\ pc' = "landings"
          ELSE landings' = landings /\ pc' = "failed"
    /\ UNCHANGED <<catalog, df, rows, logbook, states, code, canon, route, codes>>

(* get_landing_state_codes(landings) *)
GetLandingStateCodes ==
    /\ pc = "landings"
    /\ states' = get_landing_state_codes(landings)
    /\ pc' = "done"
    /\ UNCHANGED <<catalog, df, rows, logbook, landings, code, canon, route, codes>>

(* airport_db.canonicalize_airport_code(c) *)
CanonicalizeAirportCode ==
    /\ pc = "db"
    /\ \E c \in CodePool :
          /\ code' = c
          /\ canon' = canonicalize_airport_code(df, c)
    /\ pc' = "canon"
    /\ UNCHANGED <<catalog, df, rows, logbook, landings, states, route, codes>>

(* airport_db.split_valid_route(r) *)
SplitValidRoute ==
    /\ pc = "db"
    /\ \E r \in Cells :
          /\ route' = r
          /\ codes' = split_valid_route(df, r)
    /\ pc' = "route"
    /\ UNCHANGED <<catalog, df, rows, logbook, landings, states, code, canon>>

Next == AirportDatabaseInit \/ LogbookInit \/ LandingsInit \/ GetLandingStateCodes

Spec == Init /\ [][Next]_vars

NextFn == AirportDatabaseInit \/ CanonicalizeAirportCode \/ SplitValidRoute

SpecFn == InitFn /\ [][NextFn]_vars

(* ------------------------------ properties ------------------------------ *)
Dash == <<"-">>

(* the records of a table whose local_code is c *)
WithLocalCode(table, c) == {i \in DOMAIN table : table[i].local_code = Some(c)}

(* C1: when "K"+c is an identifier of the table, canonicalize_airport_code(c) *)
(* returns "K"+c, whatever else c matches.                                    *)
Thm_C1 ==
    (pc = "canon" /\ <<"K">> \o code \in Index(df)) => canon = Some(<<"K">> \o code)

Wit_C1 ==
    /\ pc = "canon"
    /\ <<"K">> \o code \in Index(df)
    /\ <<"C">> \o code \in Index(df)
    /\ WithLocalCode(df, code) # {}
    /\ canon = Some(<<"K">> \o code)

(* C2: when "K"+c is no identifier, the result is "C"+c if that is an         *)
(* identifier, else c if that is one, else the identifier of the only record  *)
(* with local_code c, else None (no such record, or two or more).             *)
Thm_C2 ==
    (pc = "canon" /\ <<"K">> \o code \notin Index(df)) =>
        canon = IF <<"C">> \o code \in Index(df) THEN Some(<<"C">> \o code)
                ELSE IF code \in Index(df) THEN Some(code)
                ELSE IF Cardinality(WithLocalCode(df, code)) = 1
                     THEN Some(df[CHOOSE i \in WithLocalCode(df, code) : TRUE].ident)
                     ELSE None

Wit_C2 ==
    /\ pc = "canon"
    /\ {<<"K">> \o code, <<"C">> \o code, code} \cap Index(df) = {}
    /\ Cardinality(WithLocalCode(df, code)) = 2
    /\ canon = None

(* C3: a text that passes the count and length rules and has a segment that   *)
(* does not canonicalize gives None, never a list of the segments that did.   *)
Thm_C3 ==
    (pc = "route" /\ route.type = "str") =>
        LET segs == Split(Strip(route.val), Dash)
        IN (/\ Len(segs) >= 2 /\ Len(segs) <= 9
            /\ \A i \in DOMAIN segs : Len(segs[i]) \in {3, 4}
            /\ \E i \in DOMAIN segs : canonicalize_airport_code(df, segs[i]) = None)
           => codes = None

Wit_C3 ==
    /\ pc = "route"
    /\ route = Str(SMO \o Dash \o ZZZ)
    /\ canonicalize_airport_code(df, SMO) = Some(KSMO)
    /\ canonicalize_airport_code(df, ZZZ) = None
    /\ codes = None

(* the statement of C4 and C5 over a given list of segments *)
RouteMatches(segs) ==
    /\ Len(codes.val) = Len(segs)
    /\ Len(codes.val) >= 2 /\ Len(codes.val) <= 9
    /\ \A i \in DOMAIN segs :
          /\ Some(codes.val[i]) = canonicalize_airport_code(df, segs[i])
          /\ codes.val[i] \in Index(df)

(* C4 as stated: a returned route matches, element by element, the segments   *)
(* of the text split on '-'; fails for a text with surrounding whitespace.    *)
Orig_C4 ==
    pc = "route" =>
        /\ route.type # "str" => codes = None
        /\ codes # None => RouteMatches(Split(route.val, Dash))

(* C4: a returned route has the length and order of the segments of the text  *)
(* stripped of surrounding whitespace and split on '-', 2 to 9 of them;       *)
(* element i is canonicalize_airport_code(segment i) and is an identifier of  *)
(* the table.  A cell that is not a string gives None.                        *)
Thm_C4 ==
    pc = "route" =>
        /\ route.type # "str" => codes = None
        /\ codes # None => RouteMatches(Split(Strip(route.val), Dash))

Wit_C4 ==
    /\ pc = "route"
    /\ codes = Some(<<KSMO, KRNT>>)
    /\ route.val # Strip(route.val)

(* C5 as stated: a segment of the text split on '-' that is not 3 or 4 long   *)
(* gives None; fails when the extra length is surrounding whitespace.         *)
Orig_C5 ==
    (pc = "route" /\ route.type = "str") =>
        ((\E seg \in Range(Split(route.val, Dash)) : Len(seg) \notin {3, 4})
            => codes = None)

(* C5: if any segment of the text stripped of surrounding whitespace and      *)
(* split on '-' is not 3 or 4 characters long, the result is None.            *)
Thm_C5 ==
    (pc = "route" /\ route.type = "str") =>
        ((\E seg \in Range(Split(Strip(route.val), Dash)) : Len(seg) \notin {3, 4})
            => codes = None)

Wit_C5 ==
    /\ pc = "route"
    /\ route = Str(SMO \o Dash \o <<"S", "M">>)
    /\ canonicalize_airport_code(df, SMO) # None
    /\ canonicalize_airport_code(df, <<"S", "M">>) # None
    /\ codes = None

(* C6: a text that splits on '-' into fewer than 2 or more than 9 segments    *)
(* gives None, whatever the table holds.                                      *)
Thm_C6 ==
    (pc = "route" /\ route.type = "str") =>
        LET n == Len(Split(route.val, Dash))
        IN (n < 2 \/ n > 9) => codes = None

Wit_C6 ==
    /\ pc = "route"
    /\ route.type = "str"
    /\ Len(Split(route.val, Dash)) = 10
    /\ \A seg \in Range(Split(Strip(route.val), Dash)) :
          Len(seg) = 3 /\ canonicalize_airport_code(df, seg) # None
    /\ codes = None

(* C7: the load never completes with a table that holds two records under     *)
(* one identifier.                                                            *)
Claim_C7 ==
    pc \notin {"start", "failed"} =>
        \A i, j \in DOMAIN df : df[i].ident = df[j].ident => i = j

(* the identifiers of the routes of the retained entries *)
RouteIdents == UNION {Range(logbook[k].codes.val) : k \in DOMAIN logbook}

(* C8: once Landings is built, the landings are exactly the identifiers of    *)
(* the retained routes, each once, each with its record of the table.         *)
Claim_C8 ==
    pc \in {"landings", "done"} =>
        /\ \A id \in RouteIdents : \E i \in DOMAIN landings : landings[i].ident = id
        /\ \A i \in DOMAIN landings : landings[i].ident \in RouteIdents
        /\ \A i, j \in DOMAIN landings : landings[i].ident = landings[j].ident => i = j
        /\ \A i \in DOMAIN landings : landings[i] \in Range(df)

(* C9: the state codes are exactly the suffixes of the landings' regions that *)
(* start with "US-"; any other landing adds nothing and stays a landing.      *)
Thm_C9 ==
    pc = "done" =>
        /\ \A s \in states :
              \E i \in DOMAIN landings : landings[i].iso_region = <<"U", "S", "-">> \o s
        /\ \A i \in DOMAIN landings :
              LET r == landings[i].iso_region
              IN \A k \in 1..(Len(r) + 1) :
                    r = <<"U", "S", "-">> \o SubSeq(r, k, Len(r))
                        => SubSeq(r, k, Len(r)) \in states

Wit_C9 ==
    /\ pc = "done"
    /\ \E i \in DOMAIN landings : landings[i].iso_region = <<"C", "A", "-", "B", "C">>
    /\ states = {<<"W", "A">>}

(* what the loader has to leave behind *)
Retained ==
    /\ \A i \in DOMAIN rows :
          split_valid_route(df, rows[i]) # None
              <=> \E k \in DOMAIN logbook : logbook[k].row = i
    /\ \A k \in DOMAIN logbook :
          /\ logbook[k].row \in DOMAIN rows
          /\ logbook[k].Route = rows[logbook[k].row]
          /\ logbook[k].codes = split_valid_route(df, logbook[k].Route)
    /\ \A k, l \in DOMAIN logbook : k < l => logbook[k].row < logbook[l].row

(* C10: the loader retains exactly the rows whose Route parses to a route,    *)
(* in their order, each with its route; a dropped row changes nothing about   *)
(* the others and aborts nothing: a run only fails before the table exists.   *)
Thm_C10 ==
    /\ pc \in {"logbook", "landings", "done"} => Retained
    /\ pc = "failed" => df = <<>>

Wit_C10 ==
    /\ pc = "logbook"
    /\ Len(rows) = 2
    /\ split_valid_route(df, rows[1]) = None
    /\ Len(logbook) = 1
    /\ logbook[1].row = 2

====
